---- MODULE Spec2Model ----
(***************************************************************************)
(* Model of the Wikipedia + Ollama chatbot pipeline (chatbot.py):          *)
(* WikiChatbot.extract_topic, search, rank_pages, get_page, stream_llm and *)
(* the generator answer_stream, driven by a caller that pulls tokens.      *)
(* Spec and SpecLf run one invocation, SpecTopic applies extract_topic to  *)
(* every short question, SpecMain is the pipeline of main.py with its      *)
(* non-streaming answer, SpecPair runs two invocations on the one object   *)
(* of server.py.                                                           *)
(*                                                                         *)
(* Text is a sequence of symbols.  A question is a sequence of one-letter  *)
(* symbols, a fixed piece of a message is one symbol, str(e) of an         *)
(* exception is the symbol "<exc>".  An article text is a record           *)
(* [page, len, marker]: the first len characters of the text of page,      *)
(* followed by "..." when marker is set.                                   *)
(***************************************************************************)
EXTENDS Integers, Sequences, FiniteSets, TLC

\* ------------------------------------------------------------------ bounds
MaxResults == 6
MaxChunks == 2
MaxQLen == 4

\* ------------------------------------------------------- program constants
MaxCandidates == 5
SnippetChars == 300
ContentChars == 6000
MarkerChars == 3

\* ------------------------------------------------------------------ state
VARIABLES
    question,      \* the argument of answer_stream
    lfFaulty,      \* whether calls of the observability client may raise
    pc,            \* the position of the generator answer_stream
    ctl,           \* who runs: "caller" (generator suspended) or "gen"
    stage,         \* the stage of the pipeline's state machine
    topic, results, best, content, final_answer,   \* locals of answer_stream
    chunks,        \* the chunks the inference stream has produced
    held,          \* the token pulled from the stream and not yet yielded
    out,           \* the tokens yielded to the caller
    calls,         \* the requests issued to the provider and the inference service
    replies,       \* what the services answered, request by request
    asked,         \* how many times the caller has asked for a token
    outer,         \* the answer_pipeline trace
    spell,         \* the call of the spelling corrector and its answer
    spans,         \* the traces and spans of the stages: absent, open, or
                   \* closed with an output ("ok", "error")
    result,        \* the accumulator of answer (main.py)
    answer,        \* what answer returned (main.py)
    inv,           \* which invocation of answer_stream is running
    peer           \* the frame of the other invocation, when there are two

vars == <<question, lfFaulty, pc, ctl, stage, topic, results, best, content,
          final_answer, chunks, held, out, calls, replies, asked, outer,
          spell, spans, result, answer, inv, peer>>

locals == <<topic, results, best, content, final_answer>>

\* What the pipeline of chatbot.py never touches.
aside == <<result, answer, inv, peer>>

\* Two invocations run at once.  Their state space is the product of two
\* pipelines, so the services then answer from smaller sets.
Duo == peer.alive

\* ------------------------------------------------------------------- values
Min(a, b) == IF a < b THEN a ELSE b

Range(s) == {s[i] : i \in 1..Len(s)}

\* A Python value that is a string or None.
PyNone == [isNone |-> TRUE, s |-> <<>>]
PyStr(t) == [isNone |-> FALSE, s |-> t]
\* f"{v}" and str(v)
Format(v) == IF v.isNone THEN <<"None">> ELSE v.s
\* bool(v) for a string or None
Truthy(v) == ~v.isNone /\ v.s # <<>>

ExcText == <<"<exc>">>

UpperChars == <<"A","B","C","D","E","F","G","H","I","J","K","L","M",
                "N","O","P","Q","R","S","T","U","V","W","X","Y","Z">>
LowerChars == <<"a","b","c","d","e","f","g","h","i","j","k","l","m",
                "n","o","p","q","r","s","t","u","v","w","x","y","z">>

IsLetter(c) == c \in Range(UpperChars) \cup Range(LowerChars)

LowerChar(c) ==
    IF c \in Range(UpperChars)
    THEN LowerChars[CHOOSE i \in 1..Len(UpperChars) : UpperChars[i] = c]
    ELSE c

\* question.lower()
Lower(q) == [i \in 1..Len(q) |-> LowerChar(q[i])]

\* re.findall(r"[a-zA-Z]+", q): the maximal runs of ASCII letters, in order
RECURSIVE FindAllFrom(_, _, _, _)
FindAllFrom(q, i, cur, acc) ==
    IF i > Len(q)
    THEN IF cur = <<>> THEN acc ELSE Append(acc, cur)
    ELSE IF IsLetter(q[i])
         THEN FindAllFrom(q, i + 1, Append(cur, q[i]), acc)
         ELSE FindAllFrom(q, i + 1, <<>>,
                          IF cur = <<>> THEN acc ELSE Append(acc, cur))

FindAll(q) == FindAllFrom(q, 1, <<>>, <<>>)

remove_words ==
    { <<"w","h","a","t">>, <<"w","h","o">>, <<"w","h","y">>,
      <<"w","h","e","r","e">>, <<"w","h","e","n">>, <<"h","o","w">>,
      <<"e","x","p","l","a","i","n">>, <<"d","e","f","i","n","e">>,
      <<"d","e","s","c","r","i","b","e">>, <<"t","e","l","l">>,
      <<"m","e">>, <<"a","b","o","u","t">>,
      <<"c","h","a","r","a","c","t","e","r","i","s","t","i","c","s">>,
      <<"f","e","a","t","u","r","e","s">>, <<"t","y","p","e","s">>,
      <<"i","n","f","o","r","m","a","t","i","o","n">>,
      <<"i","n","f","o">>, <<"o","f">> }

RECURSIVE SelectSeqNotIn(_, _)
SelectSeqNotIn(ws, S) ==
    IF ws = <<>> THEN <<>>
    ELSE IF Head(ws) \in S
         THEN SelectSeqNotIn(Tail(ws), S)
         ELSE <<Head(ws)>> \o SelectSeqNotIn(Tail(ws), S)

\* words = [w for w in re.findall(...) if w not in remove_words]
Words(q) == SelectSeqNotIn(FindAll(Lower(q)), remove_words)

\* What SpellChecker.correction may answer for a word: the word itself, another
\* word of its dictionary, or None when it has no candidate.
OtherWord == <<"w","a","t","e","r">>
SpellOutcomes(w) ==
    IF Duo THEN {PyStr(w)} ELSE {PyStr(w), PyStr(OtherWord), PyNone}

\* topic = self.spell.correction(words[-1]) if words else question
TopicOf(q, corr) ==
    IF Words(q) # <<>> THEN corr ELSE PyStr(q)

\* Mutant of LastWord: the first remaining word is taken.
FirstWord(q) == Words(q)[1]

\* words[-1]
LastWord(q) == Words(q)[Len(Words(q))]

\* ---------------------------------------------------------- article texts
\* A text that is either a literal or the first len characters of a part
\* ("summary", "content") of a page, followed by "..." when marker is set.
Literal(l) == [lit |-> l, page |-> <<>>, part |-> "lit", len |-> 0, marker |-> FALSE]
PageText(title, part, n) ==
    [lit |-> <<>>, page |-> title, part |-> part, len |-> n, marker |-> FALSE]

TextLen(t) == t.len + (IF t.marker THEN MarkerChars ELSE 0)

\* t[:n] of an unmarked page text
Slice(t, n) == [t EXCEPT !.len = Min(t.len, n)]

\* t + "..."
WithMarker(t) == [t EXCEPT !.marker = TRUE]

\* A Python value that is an article text or None.
TextNone == [isNone |-> TRUE, t |-> Literal(<<>>)]
TextVal(t) == [isNone |-> FALSE, t |-> t]

\* Mutant of TextTruthy: the test is "is not None" and lets "" through.
TextTruthyNotNone(v) == ~v.isNone

\* bool(content)
TextTruthy(v) == ~v.isNone /\ (TextLen(v.t) > 0 \/ v.t.lit # <<>>)

\* ------------------------------------------------- the content provider
TitleNames == <<"T1", "T2", "T3", "T4", "T5", "T6", "T7", "T8", "T9">>
Title(i) == <<TitleNames[i]>>
TitleIndex(t) == CHOOSE i \in 1..Len(TitleNames) : Title(i) = t

Asc(n) == [i \in 1..n |-> Title(i)]
Desc(n) == [i \in 1..n |-> Title(n + 1 - i)]

\* What wikipedia.search may answer: a list of at most MaxResults titles in
\* the provider's relevance order.
CandLists == {Asc(n) : n \in 0..MaxResults} \cup {Desc(MaxResults)}

Raised == [raised |-> TRUE, val |-> <<>>]
Returned(v) == [raised |-> FALSE, val |-> v]

SearchOutcomes ==
    IF Duo THEN {Returned(<<>>), Returned(Asc(1))}
    ELSE {Raised} \cup {Returned(l) : l \in CandLists}

\* The summary of the page of a title: pages of odd rank have a summary of
\* exactly SnippetChars characters, the others one character more.
SummaryLen(title) ==
    IF TitleIndex(title) % 2 = 1 THEN SnippetChars ELSE SnippetChars + 1

\* What wikipedia.page(title, auto_suggest=False) may do for a preview.
PreviewOutcomes == {"ok", "fail"}

\* What wikipedia.page(title, auto_suggest=True).content may be: the fetch
\* raises, or the article has one of these lengths.
ContentLens == {0, ContentChars, ContentChars + 1}
PageOutcomes ==
    IF Duo THEN {[raised |-> TRUE, len |-> 0], [raised |-> FALSE, len |-> ContentChars]}
    ELSE {[raised |-> TRUE, len |-> 0]}
         \cup {[raised |-> FALSE, len |-> n] : n \in ContentLens}

\* ------------------------------------------------- the inference service
Whitespace == {" ", "\n", "\t"}

RECURSIVE LStrip(_)
LStrip(s) ==
    IF s # <<>> /\ Head(s) \in Whitespace THEN LStrip(Tail(s)) ELSE s

RECURSIVE RStrip(_)
RStrip(s) ==
    IF s # <<>> /\ s[Len(s)] \in Whitespace
    THEN RStrip(SubSeq(s, 1, Len(s) - 1)) ELSE s

\* resp["message"]["content"].strip()
Strip(s) == LStrip(RStrip(s))

\* What the ranking chat call may answer given the candidates: the first
\* candidate with white space around it, a text that is no candidate, or an
\* exception.
RankOutcomes(cands) ==
    {Raised, Returned(<<"Some other page">>)}
    \cup (IF cands = <<>> THEN {}
          ELSE {Returned(<<" ">> \o cands[1] \o <<"\n">>)})

\* The content of one chunk of the token stream.
ChunkVals ==
    IF Duo THEN {IF inv = 1 THEN <<"a">> ELSE <<"b">>} ELSE {<<"a">>, <<"b">>}

\* What pulling the next chunk may do after n chunks.
PullOutcomes(n) ==
    {[kind |-> "end", tok |-> <<>>], [kind |-> "raise", tok |-> <<>>]}
    \cup (IF n < MaxChunks THEN {[kind |-> "chunk", tok |-> c] : c \in ChunkVals}
          ELSE {})

\* ------------------------------------------------------------- questions
Questions ==
    { <<"O","f"," ","t","e","a","?">>,
      <<"4","2","?">>,
      <<"W","h","a","t"," ","o","f">> }

\* The questions extract_topic is applied to on its own: every text of at most
\* MaxQLen characters over these characters.
TopicChars == {"A", "O", "o", "f", " ", "4"}
TopicQuestions == UNION {[1..n -> TopicChars] : n \in 0..MaxQLen}

\* ------------------------------------------------------ WikiChatbot, pure
\* One request to an external service, as the pipeline issued it.
Call(op, arg, fuzzy) == [op |-> op, arg |-> arg, fuzzy |-> fuzzy]

\* Mutant of FallbackIssued: the topic query is issued whenever the primary
\* query did not raise, also when it returned candidates.
FallbackAlways(o1) == ~o1.raised

\* search: r = wikipedia.search(question); if not r: r = wikipedia.search(topic);
\* any exception of either call gives r = []
FallbackIssued(o1) == ~o1.raised /\ o1.val = <<>>

SearchValue(o1, o2) ==
    IF o1.raised THEN <<>>
    ELSE IF ~FallbackIssued(o1) THEN o1.val
    ELSE IF o2.raised THEN <<>>
    ELSE o2.val

SearchCalls(q, t, o1) ==
    <<Call("search", PyStr(q), FALSE)>>
    \o (IF FallbackIssued(o1) THEN <<Call("search", t, FALSE)>> ELSE <<>>)

\* What the provider answered to the search requests issued.
SearchReplies(o1, o2) == <<o1>> \o (IF FallbackIssued(o1) THEN <<o2>> ELSE <<>>)

\* Mutant of Candidates: the slice is missing.
CandidatesUncapped(res) == res

\* results[:5]
Candidates(res) == SubSeq(res, 1, Min(MaxCandidates, Len(res)))

Placeholder == Literal(<<"Unable to load summary.">>)

\* page.summary[:300], or the placeholder when the preview fetch raised
SnippetText(title, po) ==
    IF po = "ok"
    THEN Slice(PageText(title, "summary", SummaryLen(title)), SnippetChars)
    ELSE Placeholder

\* Mutant of Snippets: one failed preview degrades every snippet.
SnippetsAllOrNothing(cands, pv) ==
    [i \in 1..Len(cands) |->
        [title |-> cands[i],
         text |-> IF \E j \in 1..Len(cands) : pv[j] = "fail"
                  THEN Placeholder ELSE SnippetText(cands[i], pv[i])]]

\* snippets: one f"### {title}\n{snippet}" per candidate, in order
Snippets(cands, pv) ==
    [i \in 1..Len(cands) |-> [title |-> cands[i], text |-> SnippetText(cands[i], pv[i])]]

\* Mutant of PreviewCalls: the previews are fetched with auto-suggestion.
PreviewCallsFuzzy(cands) == [i \in 1..Len(cands) |-> Call("page", cands[i], TRUE)]

PreviewCalls(cands) == [i \in 1..Len(cands) |-> Call("page", cands[i], FALSE)]

\* Mutant of RankFails: the error of the ranking call is swallowed.
RankNeverFails(ro, en) == FALSE

\* rank_pages raises when the chat call raised or its span could not be ended.
RankFails(ro, en) == ro.raised \/ ~en

\* The disambiguation prompt: the question, the snippets joined, the
\* instruction to return only the title.
RankPrompt(q, snippets) ==
    [kind |-> "rank", question |-> q, snippets |-> snippets,
     instruction |-> "Return ONLY the page title."]

\* Mutant of Truncate: the comparison is >= instead of >.
TruncateAtLimit(t) ==
    IF t.len >= ContentChars THEN WithMarker(Slice(t, ContentChars)) ELSE t

\* if len(content) > 6000: content = content[:6000] + "..."
Truncate(t) ==
    IF t.len > ContentChars THEN WithMarker(Slice(t, ContentChars)) ELSE t

\* get_page: the truncated content, or None when the fetch raised
GetPageValue(title, po) ==
    IF po.raised THEN TextNone
    ELSE TextVal(Truncate(PageText(title, "content", po.len)))

FinalPrompt(c) ==
    [kind |-> "final", content |-> c,
     sections |-> <<"Definition", "Background", "Important Details", "Notes">>]

\* Mutant of NoPagesMsg: the message has another wording.
NoPagesMsgNoResults(t) == <<"No results found for '">> \o Format(t) \o <<"'.">>

\* Mutant of NoPagesMsg: the message carries the raw question.
NoPagesMsgRawQuestion(t) ==
    <<"No Wikipedia pages found for '">> \o question \o <<"'.">>

NoPagesMsg(t) == <<"No Wikipedia pages found for '">> \o Format(t) \o <<"'.">>
CouldNotFetchMsg(b) == <<"Could not fetch page '">> \o b \o <<"'.">>
ErrMsg(prefix) == <<prefix>> \o ExcText
FatalToken == <<"\nFatal error: ">> \o ExcText

\* The output recorded on a trace.
NoOutput == [kind |-> "unset", msg |-> <<>>, page_used |-> <<>>, final_answer |-> <<>>]
ErrorOutput(msg) ==
    [kind |-> "error", msg |-> msg, page_used |-> <<>>, final_answer |-> <<>>]
CompletedOutput(b, fa) ==
    [kind |-> "completed", msg |-> <<>>, page_used |-> b, final_answer |-> fa]

\* ------------------------------------------------------------ initial state
NoToken == [has |-> FALSE, tok |-> <<>>]

\* Whether a call of the observability client succeeds.
LfOutcomes == IF lfFaulty THEN {TRUE, FALSE} ELSE {TRUE}

\* The corrector has not been called.
NoSpell == [called |-> FALSE, arg |-> <<>>, res |-> PyNone]

\* The traces and spans the stages create (the answer_pipeline trace is outer).
SpanNames == {"extract_topic", "wikipedia_search", "rank_pages",
              "ollama_rank_call", "fetch_page", "ollama_stream_call"}

\* There is no other invocation.
NoPeer == [alive |-> FALSE]

InitCommon ==
    /\ ctl = "caller"
    /\ stage = "START"
    /\ topic = PyNone
    /\ results = <<>>
    /\ best = <<>>
    /\ content = TextNone
    /\ final_answer = <<>>
    /\ chunks = <<>>
    /\ held = NoToken
    /\ out = <<>>
    /\ calls = <<>>
    /\ replies = <<>>
    /\ asked = 0
    /\ outer = [created |-> FALSE, output |-> NoOutput]
    /\ spell = NoSpell
    /\ spans = [n \in SpanNames |-> "absent"]
    /\ result = <<>>
    /\ answer = PyNone
    /\ inv = 1

Init == InitCommon /\ pc = "start" /\ question \in Questions /\ lfFaulty = FALSE /\ peer = NoPeer

InitLf ==
    InitCommon /\ pc = "start" /\ question \in Questions /\ lfFaulty \in BOOLEAN
    /\ peer = NoPeer

\* ---------------------------------------------------------------- actions
\* An exception leaves the generator: the caller's next() raises.
Escape ==
    /\ pc' = "raised"
    /\ ctl' = "caller"
    /\ stage' = "ERROR"
    /\ UNCHANGED <<out, outer>>

\* except Exception as e_outer: record the error, yield the fatal token.
Fatal ==
    \E rec \in LfOutcomes :
        IF rec
        THEN /\ outer' = [outer EXCEPT !.output = ErrorOutput(ExcText)]
             /\ out' = Append(out, FatalToken)
             /\ pc' = "ret"
             /\ ctl' = "caller"
             /\ stage' = "ERROR"
        ELSE Escape

\* A stage handler: outer.output = {"error": msg}; yield tok; return.
Diagnose(msg, tok) ==
    \E rec \in LfOutcomes :
        IF rec
        THEN /\ outer' = [outer EXCEPT !.output = ErrorOutput(msg)]
             /\ out' = Append(out, tok)
             /\ pc' = "ret"
             /\ ctl' = "caller"
             /\ stage' = "ERROR"
        ELSE Fatal

\* The caller pulls the next token: next() on the generator.
CallerNext ==
    /\ ctl = "caller"
    /\ pc \notin {"done", "raised", "closed"}
    /\ ctl' = "gen"
    /\ pc' = IF pc = "start" THEN "begin" ELSE pc
    /\ asked' = asked + 1
    /\ UNCHANGED <<question, lfFaulty, stage, locals, chunks, held, out, calls,
                   replies, outer, spell, spans, aside>>

\* Mutant of CallerClose: the clean-up of the closed generator records the
\* completed output.
CallerCloseRecords ==
    /\ ctl = "caller"
    /\ pc \in {"start", "pull", "ret"}
    /\ pc' = "closed"
    /\ outer' = [outer EXCEPT !.output = CompletedOutput(best, final_answer)]
    /\ UNCHANGED <<question, lfFaulty, ctl, stage, locals, chunks, held, out,
                   calls, replies, asked, spell, spans, aside>>

\* The caller closes the suspended generator, or drops it: GeneratorExit is
\* raised at the yield where it waits, no except Exception clause catches it,
\* and the generator of stream_llm is closed the same way.
CallerClose ==
    /\ ctl = "caller"
    /\ pc \in {"start", "pull", "ret"}
    /\ pc' = "closed"
    /\ UNCHANGED <<question, lfFaulty, ctl, stage, locals, chunks, held, out,
                   calls, replies, asked, outer, spell, spans, aside>>

\* outer = self.lf.trace(name="answer_pipeline", ...), before the try
BeginPipeline ==
    /\ pc = "begin" /\ ctl = "gen"
    /\ \E tr \in LfOutcomes :
        IF tr
        THEN /\ outer' = [created |-> TRUE, output |-> NoOutput]
             /\ pc' = "topic"
             /\ UNCHANGED <<ctl, stage, out>>
        ELSE Escape
    /\ UNCHANGED <<question, lfFaulty, locals, chunks, held, calls, replies, asked,
                   spell, spans, aside>>

\* span.output = ... of the trace or span n
SetSpan(n, st) == spans' = [spans EXCEPT ![n] = st]

\* What a trace or span may hold after a store of st was attempted.
Stored(st) == IF lfFaulty THEN {st, "open"} ELSE {st}

ExtractTopic ==
    /\ pc = "topic" /\ ctl = "gen"
    /\ \E tr \in LfOutcomes :
       \E corr \in (IF Words(question) # <<>>
                    THEN SpellOutcomes(LastWord(question)) ELSE {PyNone}) :
        IF tr
        THEN /\ topic' = TopicOf(question, corr)
             /\ spell' = IF Words(question) # <<>>
                         THEN [called |-> TRUE, arg |-> LastWord(question),
                               res |-> corr]
                         ELSE spell
             /\ SetSpan("extract_topic", "ok")
             /\ pc' = "search"
             /\ stage' = "TOPIC_EXTRACTED"
             /\ UNCHANGED <<ctl, out, outer>>
        ELSE /\ Diagnose(ErrMsg("Error extracting topic: "),
                         ErrMsg("Error extracting topic: "))
             /\ UNCHANGED <<topic, spell, spans>>
    /\ UNCHANGED <<question, lfFaulty, results, best, content, final_answer,
                   chunks, held, calls, replies, asked, aside>>

Search ==
    /\ pc = "search" /\ ctl = "gen"
    /\ \E tr \in LfOutcomes : \E o1 \in SearchOutcomes : \E o2 \in SearchOutcomes :
        IF ~tr
        THEN /\ Diagnose(ErrMsg("Error during search: "), ErrMsg("Error during search: "))
             /\ UNCHANGED <<results, calls, replies, spans>>
        ELSE /\ calls' = calls \o SearchCalls(question, topic, o1)
             /\ replies' = replies \o SearchReplies(o1, o2)
             /\ results' = SearchValue(o1, o2)
             /\ SetSpan("wikipedia_search", "ok")
             /\ IF SearchValue(o1, o2) = <<>>
                THEN Diagnose(NoPagesMsg(topic), NoPagesMsg(topic))
                ELSE /\ pc' = "rank"
                     /\ stage' = "SEARCHED"
                     /\ UNCHANGED <<ctl, out, outer>>
    /\ UNCHANGED <<question, lfFaulty, topic, best, content, final_answer,
                   chunks, held, asked, spell, aside>>

RankPages ==
    /\ pc = "rank" /\ ctl = "gen"
    /\ LET cands == Candidates(results)
           sel == ErrMsg("Error selecting page: ")
       IN \E tr \in LfOutcomes : \E sp \in LfOutcomes : \E en \in LfOutcomes :
          \E pv \in [1..Len(cands) -> PreviewOutcomes] : \E ro \in RankOutcomes(cands) :
            LET previews == PreviewCalls(cands)
                chat == <<Call("chat", RankPrompt(question, Snippets(cands, pv)), FALSE)>>
            IN IF ~tr
               THEN /\ Diagnose(sel, sel)
                    /\ UNCHANGED <<best, calls, replies, spans>>
               ELSE IF ~sp
               THEN /\ calls' = calls \o previews
                    /\ replies' = replies \o pv
                    /\ Diagnose(sel, sel)
                    /\ \E t \in Stored("error") : SetSpan("rank_pages", t)
                    /\ UNCHANGED best
               ELSE /\ calls' = calls \o previews \o chat
                    /\ replies' = replies \o pv \o <<ro>>
                    /\ IF RankFails(ro, en)
                       THEN /\ Diagnose(sel, sel)
                            /\ \E t \in Stored("error") :
                               \E sn \in Stored("error")
                                         \cup (IF ro.raised THEN {} ELSE {"ok"}) :
                                 spans' = [spans EXCEPT !["rank_pages"] = t,
                                                        !["ollama_rank_call"] = sn]
                            /\ UNCHANGED best
                       ELSE /\ best' = Strip(ro.val)
                            /\ spans' = [spans EXCEPT !["rank_pages"] = "ok",
                                                      !["ollama_rank_call"] = "ok"]
                            /\ pc' = "fetch"
                            /\ stage' = "PAGE_SELECTED"
                            /\ UNCHANGED <<ctl, out, outer>>
    /\ UNCHANGED <<question, lfFaulty, topic, results, content, final_answer,
                   chunks, held, asked, spell, aside>>

GetPage ==
    /\ pc = "fetch" /\ ctl = "gen"
    /\ \E tr \in LfOutcomes : \E po \in PageOutcomes :
        IF ~tr
        THEN /\ Diagnose(ErrMsg("Error fetching page: "), ErrMsg("Error fetching page: "))
             /\ UNCHANGED <<content, calls, replies, spans>>
        ELSE /\ calls' = Append(calls, Call("page", best, TRUE))
             /\ replies' = Append(replies, po)
             /\ SetSpan("fetch_page", "ok")
             /\ content' = GetPageValue(best, po)
             /\ IF ~TextTruthy(GetPageValue(best, po))
                THEN Diagnose(CouldNotFetchMsg(best), CouldNotFetchMsg(best))
                ELSE /\ pc' = "open"
                     /\ stage' = "CONTENT_FETCHED"
                     /\ UNCHANGED <<ctl, out, outer>>
    /\ UNCHANGED <<question, lfFaulty, topic, results, best, final_answer,
                   chunks, held, asked, spell, aside>>

GenErrMsg == ErrMsg("Error generating answer: ")

\* Mutant of GenerationFailed: the error token replaces the partial output.
GenerationFailedDiscards ==
    /\ outer' = [outer EXCEPT !.output = ErrorOutput(GenErrMsg)]
    /\ out' = << <<"\n">> \o GenErrMsg >>
    /\ pc' = "ret"
    /\ ctl' = "caller"
    /\ stage' = "ERROR"

\* except Exception around the streaming loop: the error message is recorded
\* and yielded as one more token, after the tokens already yielded.
GenerationFailed == Diagnose(GenErrMsg, <<"\n">> \o GenErrMsg)

\* The final prompt is built and stream_llm starts: its span is created and
\* the streaming chat request is issued.
OpenStream ==
    /\ pc = "open" /\ ctl = "gen"
    /\ \E sp \in LfOutcomes :
        IF sp
        THEN /\ calls' = Append(calls, Call("chat_stream", FinalPrompt(content.t), FALSE))
             /\ replies' = Append(replies, "opened")
             /\ SetSpan("ollama_stream_call", "open")
             /\ pc' = "pull"
             /\ stage' = "STREAMING"
             /\ UNCHANGED <<ctl, out, outer>>
        ELSE /\ GenerationFailed
             /\ UNCHANGED <<calls, replies, spans>>
    /\ UNCHANGED <<question, lfFaulty, locals, chunks, held, asked, spell, aside>>

\* stream_llm asks the inference stream for its next chunk.
PullChunk ==
    /\ pc = "pull" /\ ctl = "gen"
    /\ \E o \in PullOutcomes(Len(chunks)) : \E en \in LfOutcomes :
     /\ calls' = Append(calls, Call("next_chunk", <<>>, FALSE))
     /\ replies' = Append(replies, o)
     /\ IF o.kind = "chunk"
        THEN /\ chunks' = Append(chunks, o.tok)
             /\ held' = [has |-> TRUE, tok |-> o.tok]
             /\ pc' = "fwd"
             /\ UNCHANGED <<ctl, stage, out, outer, spans>>
        ELSE IF o.kind = "end" /\ en
        THEN /\ pc' = "complete"
             /\ SetSpan("ollama_stream_call", "ok")
             /\ UNCHANGED <<ctl, stage, out, outer, chunks, held>>
        ELSE /\ GenerationFailed
             /\ \E sn \in Stored("error") \cup (IF o.kind = "end" THEN {"ok"} ELSE {}) :
                  SetSpan("ollama_stream_call", sn)
             /\ UNCHANGED <<chunks, held>>
    /\ UNCHANGED <<question, lfFaulty, locals, asked, spell, aside>>

\* Mutant of ForwardToken: the token is yielded but not appended to
\* final_answer.
ForwardTokenNoAppend ==
    /\ pc = "fwd" /\ ctl = "gen"
    /\ out' = Append(out, held.tok)
    /\ held' = NoToken
    /\ pc' = "pull"
    /\ ctl' = "caller"
    /\ UNCHANGED <<question, lfFaulty, stage, topic, results, best, content,
                   final_answer, chunks, calls, replies, asked, outer,
                   spell, spans, aside>>

\* Mutant of ForwardToken: the token is collected and the loop goes on
\* without yielding it.
ForwardTokenBuffered ==
    /\ pc = "fwd" /\ ctl = "gen"
    /\ final_answer' = final_answer \o held.tok
    /\ pc' = "pull"
    /\ UNCHANGED <<question, lfFaulty, ctl, stage, topic, results, best, content,
                   chunks, held, out, calls, replies, asked, outer,
                   spell, spans, aside>>

\* stream_llm yields the token; answer_stream appends it to final_answer and
\* yields it to the caller.
ForwardToken ==
    /\ pc = "fwd" /\ ctl = "gen"
    /\ final_answer' = final_answer \o held.tok
    /\ out' = Append(out, held.tok)
    /\ held' = NoToken
    /\ pc' = "pull"
    /\ ctl' = "caller"
    /\ UNCHANGED <<question, lfFaulty, stage, topic, results, best, content,
                   chunks, calls, replies, asked, outer, spell, spans, aside>>

\* The stream is exhausted: the completed output is recorded and the
\* generator ends.
Complete ==
    /\ pc = "complete" /\ ctl = "gen"
    /\ \E rec \in LfOutcomes :
        IF rec
        THEN /\ outer' = [outer EXCEPT !.output = CompletedOutput(best, final_answer)]
             /\ pc' = "done"
             /\ ctl' = "caller"
             /\ stage' = "DONE"
             /\ UNCHANGED out
        ELSE Fatal
    /\ UNCHANGED <<question, lfFaulty, locals, chunks, held, calls, replies, asked,
                   spell, spans, aside>>

\* Mutant of Return: the return after the diagnostic yield is missing and the
\* generator goes on with the ranking stage.
ReturnFallsThrough ==
    /\ pc = "ret" /\ ctl = "gen"
    /\ pc' = "rank"
    /\ UNCHANGED <<question, lfFaulty, ctl, stage, locals, chunks, held, out, calls,
                   replies, asked, outer, spell, spans, aside>>

\* The generator, resumed after a diagnostic token, returns.
Return ==
    /\ pc = "ret" /\ ctl = "gen"
    /\ pc' = "done"
    /\ ctl' = "caller"
    /\ UNCHANGED <<question, lfFaulty, stage, locals, chunks, held, out, calls,
                   replies, asked, outer, spell, spans, aside>>

Next ==
    \/ CallerNext
    \/ CallerClose
    \/ BeginPipeline
    \/ ExtractTopic
    \/ Search
    \/ RankPages
    \/ GetPage
    \/ OpenStream
    \/ PullChunk
    \/ ForwardToken
    \/ Complete
    \/ Return

Spec == Init /\ [][Next]_vars

SpecLf == InitLf /\ [][Next]_vars

\* extract_topic on its own, applied to every question of TopicQuestions.
InitTopic ==
    InitCommon /\ pc = "start" /\ question \in TopicQuestions /\ lfFaulty = FALSE /\ peer = NoPeer

NextTopic ==
    \/ CallerNext
    \/ BeginPipeline
    \/ ExtractTopic

SpecTopic == InitTopic /\ [][NextTopic]_vars

\* ------------------------------------------------------------------ main.py
\* The pipeline of main.py: the same stages without the observability client,
\* one try around the whole of answer_stream, and answer, which collects the
\* tokens of answer_stream.
InitMain ==
    InitCommon /\ pc = "m_start" /\ question \in Questions /\ lfFaulty = FALSE
    /\ peer = NoPeer

\* What the pipeline of main.py never touches.
chatbotOnly == <<lfFaulty, stage, final_answer, outer, spans, inv, peer>>

\* Use the following content to answer: {question} ... {content} ...
MainFinalPrompt(q, c) ==
    [kind |-> "final", question |-> q, content |-> c,
     sections |-> <<"Definition", "Background", "Important Details", "Notes">>]

MainErrToken == <<"\nError: ">> \o ExcText

\* A token is yielded and nothing but the end of the generator follows it: a
\* yield followed by return, or the yield of the except clause.
MainLastToken(tok) ==
    /\ out' = Append(out, tok)
    /\ pc' = "m_ret"
    /\ ctl' = "caller"

\* result = ""; the for statement asks answer_stream for its first token.
AnswerCall ==
    /\ pc = "m_start" /\ ctl = "caller"
    /\ result' = <<>>
    /\ pc' = "m_topic"
    /\ ctl' = "gen"
    /\ asked' = asked + 1
    /\ UNCHANGED <<question, locals, chunks, held, out, calls, replies, spell,
                   answer, chatbotOnly>>

MainExtractTopic ==
    /\ pc = "m_topic" /\ ctl = "gen"
    /\ \E corr \in (IF Words(question) # <<>>
                    THEN SpellOutcomes(LastWord(question)) ELSE {PyNone}) :
        /\ topic' = TopicOf(question, corr)
        /\ spell' = IF Words(question) # <<>>
                    THEN [called |-> TRUE, arg |-> LastWord(question), res |-> corr]
                    ELSE spell
    /\ pc' = "m_search"
    /\ UNCHANGED <<question, ctl, results, best, content, final_answer, chunks,
                   held, out, calls, replies, asked, result, answer,
                   lfFaulty, stage, outer, spans, inv, peer>>

MainSearch ==
    /\ pc = "m_search" /\ ctl = "gen"
    /\ \E o1 \in SearchOutcomes : \E o2 \in SearchOutcomes :
        /\ calls' = calls \o SearchCalls(question, topic, o1)
        /\ replies' = replies \o SearchReplies(o1, o2)
        /\ results' = SearchValue(o1, o2)
        /\ IF SearchValue(o1, o2) = <<>>
           THEN MainLastToken(NoPagesMsg(topic))
           ELSE /\ pc' = "m_rank"
                /\ UNCHANGED <<ctl, out>>
    /\ UNCHANGED <<question, topic, best, content, final_answer, chunks, held,
                   asked, spell, result, answer,
                   lfFaulty, stage, outer, spans, inv, peer>>

MainRankPages ==
    /\ pc = "m_rank" /\ ctl = "gen"
    /\ LET cands == Candidates(results)
       IN \E pv \in [1..Len(cands) -> PreviewOutcomes] : \E ro \in RankOutcomes(cands) :
            /\ calls' = calls \o PreviewCalls(cands)
                        \o <<Call("chat", RankPrompt(question, Snippets(cands, pv)), FALSE)>>
            /\ replies' = replies \o pv \o <<ro>>
            /\ IF ro.raised
               THEN /\ MainLastToken(MainErrToken)
                    /\ UNCHANGED best
               ELSE /\ best' = Strip(ro.val)
                    /\ pc' = "m_fetch"
                    /\ UNCHANGED <<ctl, out>>
    /\ UNCHANGED <<question, topic, results, content, final_answer, chunks, held,
                   asked, spell, result, answer,
                   lfFaulty, stage, outer, spans, inv, peer>>

MainGetPage ==
    /\ pc = "m_fetch" /\ ctl = "gen"
    /\ \E po \in PageOutcomes :
        /\ calls' = Append(calls, Call("page", best, TRUE))
        /\ replies' = Append(replies, po)
        /\ content' = GetPageValue(best, po)
        /\ IF ~TextTruthy(GetPageValue(best, po))
           THEN MainLastToken(CouldNotFetchMsg(best))
           ELSE /\ pc' = "m_open"
                /\ UNCHANGED <<ctl, out>>
    /\ UNCHANGED <<question, topic, results, best, final_answer, chunks, held,
                   asked, spell, result, answer,
                   lfFaulty, stage, outer, spans, inv, peer>>

\* The final prompt is built and the streaming chat request is issued.
MainOpenStream ==
    /\ pc = "m_open" /\ ctl = "gen"
    /\ calls' = Append(calls, Call("chat_stream",
                                   MainFinalPrompt(question, content.t), FALSE))
    /\ replies' = Append(replies, "opened")
    /\ pc' = "m_pull"
    /\ UNCHANGED <<question, ctl, locals, chunks, held, out, asked, spell,
                   result, answer, chatbotOnly>>

\* stream_llm asks the inference stream for its next chunk; at the end of the
\* stream answer_stream ends too.
MainPullChunk ==
    /\ pc = "m_pull" /\ ctl = "gen"
    /\ \E o \in PullOutcomes(Len(chunks)) :
        /\ calls' = Append(calls, Call("next_chunk", <<>>, FALSE))
        /\ replies' = Append(replies, o)
        /\ IF o.kind = "chunk"
           THEN /\ chunks' = Append(chunks, o.tok)
                /\ held' = [has |-> TRUE, tok |-> o.tok]
                /\ pc' = "m_fwd"
                /\ UNCHANGED <<ctl, out>>
           ELSE IF o.kind = "end"
           THEN /\ pc' = "m_done"
                /\ ctl' = "caller"
                /\ UNCHANGED <<out, chunks, held>>
           ELSE /\ MainLastToken(MainErrToken)
                /\ UNCHANGED <<chunks, held>>
    /\ UNCHANGED <<question, locals, asked, spell, result, answer, chatbotOnly>>

\* for token in self.stream_llm(prompt): yield token
MainForwardToken ==
    /\ pc = "m_fwd" /\ ctl = "gen"
    /\ out' = Append(out, held.tok)
    /\ held' = NoToken
    /\ pc' = "m_pull"
    /\ ctl' = "caller"
    /\ UNCHANGED <<question, locals, chunks, calls, replies, asked, spell,
                   result, answer, chatbotOnly>>

\* The generator, resumed after its last token, ends.
MainReturn ==
    /\ pc = "m_ret" /\ ctl = "gen"
    /\ pc' = "m_done"
    /\ ctl' = "caller"
    /\ UNCHANGED <<question, locals, chunks, held, out, calls, replies, asked,
                   spell, result, answer, chatbotOnly>>

\* Mutant of AnswerAppend: the token replaces the text collected so far.
AnswerAppendAssign ==
    /\ ctl = "caller" /\ pc \in {"m_pull", "m_ret"}
    /\ result' = out[Len(out)]
    /\ ctl' = "gen"
    /\ asked' = asked + 1
    /\ UNCHANGED <<question, pc, locals, chunks, held, out, calls, replies,
                   spell, answer, chatbotOnly>>

\* The body of the loop of answer, result += token, and the request for the
\* next token.
AnswerAppend ==
    /\ ctl = "caller" /\ pc \in {"m_pull", "m_ret"}
    /\ result' = result \o out[Len(out)]
    /\ ctl' = "gen"
    /\ asked' = asked + 1
    /\ UNCHANGED <<question, pc, locals, chunks, held, out, calls, replies,
                   spell, answer, chatbotOnly>>

\* The loop of answer is over: return result.
AnswerReturn ==
    /\ ctl = "caller" /\ pc = "m_done" /\ answer = PyNone
    /\ answer' = PyStr(result)
    /\ UNCHANGED <<question, pc, ctl, locals, chunks, held, out, calls, replies,
                   asked, spell, result, chatbotOnly>>

NextMain ==
    \/ AnswerCall
    \/ MainExtractTopic
    \/ MainSearch
    \/ MainRankPages
    \/ MainGetPage
    \/ MainOpenStream
    \/ MainPullChunk
    \/ MainForwardToken
    \/ MainReturn
    \/ AnswerAppend
    \/ AnswerReturn

SpecMain == InitMain /\ [][NextMain]_vars

\* ---------------------------------------------------------------- server.py
\* Two requests are served at once: each runs its own generator of
\* answer_stream on the one WikiChatbot object of the module.  The variables
\* of the pipeline are the frame of the invocation that runs; peer holds the
\* frame of the other one.  The object's attributes are set by __init__ only.
Cur ==
    [alive |-> TRUE, inv |-> inv, question |-> question, pc |-> pc, ctl |-> ctl,
     stage |-> stage, topic |-> topic, results |-> results, best |-> best,
     content |-> content, final_answer |-> final_answer, chunks |-> chunks,
     held |-> held, out |-> out, calls |-> calls, replies |-> replies,
     asked |-> asked, outer |-> outer, spell |-> spell, spans |-> spans]

\* The questions of the two requests.
PairQuestions ==
    << <<"O","f"," ","t","e","a","?">>, <<"4","2","?">> >>

InitPair ==
    /\ InitCommon
    /\ pc = "start"
    /\ question = PairQuestions[1]
    /\ lfFaulty = FALSE
    /\ peer = [alive |-> TRUE, inv |-> 2, question |-> PairQuestions[2],
               pc |-> "start", ctl |-> "caller", stage |-> "START",
               topic |-> PyNone, results |-> <<>>, best |-> <<>>,
               content |-> TextNone, final_answer |-> <<>>, chunks |-> <<>>,
               held |-> NoToken, out |-> <<>>, calls |-> <<>>, replies |-> <<>>,
               asked |-> 0,
               outer |-> [created |-> FALSE, output |-> NoOutput],
               spell |-> NoSpell, spans |-> [n \in SpanNames |-> "absent"]]

\* Mutant of Switch: the accumulated answer is kept on the shared object
\* instead of the frame.
SwitchSharesAnswer ==
    /\ peer.alive
    /\ peer' = Cur
    /\ inv' = peer.inv
    /\ question' = peer.question
    /\ pc' = peer.pc
    /\ ctl' = peer.ctl
    /\ stage' = peer.stage
    /\ topic' = peer.topic
    /\ results' = peer.results
    /\ best' = peer.best
    /\ content' = peer.content
    /\ chunks' = peer.chunks
    /\ held' = peer.held
    /\ out' = peer.out
    /\ calls' = peer.calls
    /\ replies' = peer.replies
    /\ asked' = peer.asked
    /\ outer' = peer.outer
    /\ spell' = peer.spell
    /\ spans' = peer.spans
    /\ UNCHANGED <<lfFaulty, final_answer, result, answer>>

\* The other request's thread runs: its frame becomes the running one.
Switch ==
    /\ peer.alive
    /\ peer' = Cur
    /\ inv' = peer.inv
    /\ question' = peer.question
    /\ pc' = peer.pc
    /\ ctl' = peer.ctl
    /\ stage' = peer.stage
    /\ topic' = peer.topic
    /\ results' = peer.results
    /\ best' = peer.best
    /\ content' = peer.content
    /\ final_answer' = peer.final_answer
    /\ chunks' = peer.chunks
    /\ held' = peer.held
    /\ out' = peer.out
    /\ calls' = peer.calls
    /\ replies' = peer.replies
    /\ asked' = peer.asked
    /\ outer' = peer.outer
    /\ spell' = peer.spell
    /\ spans' = peer.spans
    /\ UNCHANGED <<lfFaulty, result, answer>>

NextPair ==
    \/ CallerNext
    \/ CallerClose
    \/ BeginPipeline
    \/ ExtractTopic
    \/ Search
    \/ RankPages
    \/ GetPage
    \/ OpenStream
    \/ PullChunk
    \/ ForwardToken
    \/ Complete
    \/ Return
    \/ Switch

SpecPair == InitPair /\ [][NextPair]_vars

\* ----------------------------------------------------------------- claims
StageOrder == <<"START", "TOPIC_EXTRACTED", "SEARCHED", "PAGE_SELECTED",
                "CONTENT_FETCHED", "STREAMING", "DONE">>
StageRank(st) == CHOOSE i \in 1..Len(StageOrder) : StageOrder[i] = st

IsSearch(c) == c.op = "search"
IsPreview(c) == c.op = "page" /\ ~c.fuzzy
IsRanking(c) == c.op = "chat"
IsFinalFetch(c) == c.op = "page" /\ c.fuzzy
IsGeneration(c) == c.op = "chat_stream"
IsPull(c) == c.op = "next_chunk"

CallRank(c) ==
    IF IsSearch(c) THEN 1
    ELSE IF IsPreview(c) THEN 2
    ELSE IF IsRanking(c) THEN 3
    ELSE IF IsFinalFetch(c) THEN 4
    ELSE IF IsGeneration(c) THEN 5
    ELSE 6

Count(cs, P(_)) == Cardinality({i \in 1..Len(cs) : P(cs[i])})

\* The requests of a run follow the order of the stages, and the ranking
\* request, the final fetch and the generation request are issued at most once.
CallsInStageOrder(cs) ==
    /\ \A i, j \in 1..Len(cs) : i < j => CallRank(cs[i]) <= CallRank(cs[j])
    /\ Count(cs, IsSearch) <= 2
    /\ Count(cs, IsPreview) <= MaxCandidates
    /\ Count(cs, IsRanking) <= 1
    /\ Count(cs, IsFinalFetch) <= 1
    /\ Count(cs, IsGeneration) <= 1

C1_Step ==
    /\ stage' # stage =>
          IF stage' = "ERROR"
          THEN stage \notin {"DONE", "ERROR"}
          ELSE /\ stage \notin {"DONE", "ERROR"}
               /\ StageRank(stage') = StageRank(stage) + 1
    /\ Len(calls') >= Len(calls)
    /\ SubSeq(calls', 1, Len(calls)) = calls
    /\ calls' # calls => CallsInStageOrder(calls')
    /\ stage = "ERROR" => /\ calls' = calls
                          /\ out' = out
                          /\ chunks' = chunks
                          /\ stage' = "ERROR"

\* C1: the stages of answer_stream run at most once each and only in the order
\* topic extraction, search, ranking, final fetch, streaming, done; once the
\* pipeline is in ERROR (a diagnostic token was emitted) no further request is
\* issued to any service and no further token is emitted.
C1_StateMachineOrder == [][C1_Step]_vars

\* A run that failed after the search and the ranking, whose generator was
\* resumed after the diagnostic token and ended.
C1_Witness ==
    /\ pc = "done"
    /\ stage = "ERROR"
    /\ Len(out) = 1
    /\ Count(calls, IsRanking) = 1
    /\ asked = 2

\* C2 (as claimed): a run consumed to the end has emitted at least one token.
C2_NonEmptyOutput == pc = "done" => out # <<>>

\* C3 (as claimed): no exception leaves answer_stream, whatever fails, the calls
\* of the observability client included.
C3_NoExceptionEscapes == pc # "raised"

\* The search stage has issued its requests.
Searched == calls # <<>> /\ pc \notin {"start", "begin", "topic", "search"}

\* C4 (as claimed): when the primary search raises, the fallback search with
\* the topic is still issued and its results (the empty list if it raises too)
\* are what search returns.
C4_FallbackAfterPrimaryError ==
    (Searched /\ replies[1].raised) =>
        /\ Count(calls, IsSearch) = 2
        /\ calls[2].arg = topic
        /\ results = (IF replies[2].raised THEN <<>> ELSE replies[2].val)

\* C5: the primary query carries the full question and is issued first; the
\* fallback query with the topic is issued if and only if the primary query
\* returned an empty list; a non-empty primary result is returned unchanged
\* and no second query is issued; at most two search requests are made.
C5_TwoTierSearch ==
    Searched =>
        /\ IsSearch(calls[1])
        /\ calls[1].arg = PyStr(question)
        /\ Count(calls, IsSearch) <= 2
        /\ (Count(calls, IsSearch) = 2) <=> (~replies[1].raised /\ replies[1].val = <<>>)
        /\ Count(calls, IsSearch) = 2 => (IsSearch(calls[2]) /\ calls[2].arg = topic)
        /\ (~replies[1].raised /\ replies[1].val # <<>>) => results = replies[1].val

\* The primary query returned nothing, the fallback was issued and returned
\* the candidates in descending order, which search returned.
C5_Witness ==
    /\ Searched
    /\ Count(calls, IsSearch) = 2
    /\ results = Desc(MaxResults)
    /\ pc = "rank"

\* C6: when the search ends with no candidate, exactly one token is emitted,
\* the no-results message with the extracted topic, the pipeline is in ERROR
\* and ends, and no request other than the searches was issued.
C6_NoResults ==
    (Searched /\ results = <<>>) =>
        /\ out = << <<"No Wikipedia pages found for '">> \o Format(topic) \o <<"'.">> >>
        /\ stage = "ERROR"
        /\ pc \in {"ret", "done", "closed"}
        /\ \A i \in 1..Len(calls) : IsSearch(calls[i])

\* Both queries returned nothing, the topic differs from the question, and the
\* generator has ended after its one token.
C6_Witness ==
    /\ Searched
    /\ results = <<>>
    /\ Count(calls, IsSearch) = 2
    /\ ~replies[2].raised
    /\ Format(topic) # question
    /\ Len(out) = 1
    /\ pc = "done"

\* rank_pages has run on a non-empty candidate list.
Ranked == results # <<>> /\ pc \notin {"start", "begin", "topic", "search", "rank"}

RankingIndex == CHOOSE i \in 1..Len(calls) : IsRanking(calls[i])

\* C7: for a candidate list of length n >= 1, rank_pages issues exactly one
\* single-shot ranking request whose prompt holds exactly min(n, 5) snippets,
\* one per candidate among the first five in the provider's order, and exactly
\* those candidates are fetched for a preview.
C7_OneRankingRequest ==
    Ranked =>
        LET k == IF Len(results) < 5 THEN Len(results) ELSE 5
            first == Count(calls, IsSearch)
        IN /\ Count(calls, IsRanking) = 1
           /\ calls[RankingIndex].arg.kind = "rank"
           /\ Len(calls[RankingIndex].arg.snippets) = k
           /\ \A i \in 1..k : calls[RankingIndex].arg.snippets[i].title = results[i]
           /\ Count(calls, IsPreview) = k
           /\ \A i \in 1..k : /\ IsPreview(calls[first + i])
                              /\ calls[first + i].arg = results[i]
           /\ RankingIndex = first + k + 1

\* rank_pages has run on a list of more than five candidates.
C7_Witness ==
    /\ Ranked
    /\ Len(results) > 5
    /\ results[1] # Title(1)
    /\ pc = "fetch"

\* C8: when the ranking call raises, exactly one token is emitted, it starts
\* with "Error selecting page", the generator ends, and neither the final
\* fetch nor the generation request is issued.
C8_RankingError ==
    \A i \in 1..Len(calls) :
        (IsRanking(calls[i]) /\ replies[i].raised) =>
            /\ Len(out) = 1
            /\ out[1][1] = "Error selecting page: "
            /\ stage = "ERROR"
            /\ pc \in {"ret", "done", "closed"}
            /\ Count(calls, IsFinalFetch) = 0
            /\ Count(calls, IsGeneration) = 0

C8_Witness ==
    /\ pc = "done"
    /\ \E i \in 1..Len(calls) : IsRanking(calls[i]) /\ replies[i].raised
    /\ Len(out) = 1

\* The tokens the inference stream has produced, from the log of the pulls.
RECURSIVE Produced(_, _)
Produced(cs, rs) ==
    IF cs = <<>> THEN <<>>
    ELSE IF IsPull(Head(cs)) /\ Head(rs).kind = "chunk"
         THEN <<Head(rs).tok>> \o Produced(Tail(cs), Tail(rs))
         ELSE Produced(Tail(cs), Tail(rs))

StreamRaised ==
    \E i \in 1..Len(calls) : IsPull(calls[i]) /\ replies[i].kind = "raise"

IsPrefix(a, b) == Len(a) <= Len(b) /\ SubSeq(b, 1, Len(a)) = a

\* C9: when the inference stream fails after k tokens, the caller has received
\* exactly those k tokens in order, then one token with the error text, and
\* the generator ends; emitted tokens are never retracted or changed.
C9_PartialOutputKept ==
    /\ [](StreamRaised =>
            /\ out = Produced(calls, replies)
                     \o << <<"\n", "Error generating answer: ", "<exc>">> >>
            /\ stage = "ERROR"
            /\ pc \in {"ret", "done", "closed"})
    /\ [][IsPrefix(out, out')]_vars

\* The stream failed after two tokens and the generator has ended.
C9_Witness ==
    /\ StreamRaised
    /\ Len(Produced(calls, replies)) = 2
    /\ Len(out) = 3
    /\ pc = "done"

\* C10: while streaming, the tokens emitted are a prefix of the tokens the
\* inference stream produced, at most one produced token is not yet forwarded,
\* and the stream was pulled at most as many times as the caller asked for a
\* token.
C10_ImmediateForwarding ==
    stage \in {"STREAMING", "DONE"} =>
        /\ IsPrefix(out, Produced(calls, replies))
        /\ Len(Produced(calls, replies)) - Len(out) <= 1
        /\ Count(calls, IsPull) <= asked

\* One token was forwarded and the caller's second request has pulled the
\* second token, which is held and not yet forwarded.
C10_Witness ==
    /\ stage = "STREAMING"
    /\ Len(out) = 1
    /\ Len(Produced(calls, replies)) = 2
    /\ held.has
    /\ asked = 2

\* C11: when the final fetch raises or gives empty content, exactly one token
\* is emitted, the could-not-fetch message naming the selected title (not the
\* message of an exception handler), the pipeline is in ERROR and ends, and no
\* generation request is issued.
C11_FetchFailure ==
    \A i \in 1..Len(calls) :
        (IsFinalFetch(calls[i]) /\ (replies[i].raised \/ replies[i].len = 0)) =>
            /\ calls[i].arg = best
            /\ out = << <<"Could not fetch page '">> \o best \o <<"'.">> >>
            /\ outer.output.kind = "error"
            /\ outer.output.msg = out[1]
            /\ stage = "ERROR"
            /\ pc \in {"ret", "done", "closed"}
            /\ Count(calls, IsGeneration) = 0

\* The final fetch returned an empty text and the generator has ended.
C11_Witness ==
    /\ pc = "done"
    /\ \E i \in 1..Len(calls) :
          IsFinalFetch(calls[i]) /\ ~replies[i].raised /\ replies[i].len = 0
    /\ Len(out) = 1

\* C12: a preview fetch that raises turns only its own snippet into the
\* placeholder; every other snippet is the first 300 characters at most of
\* the summary of its candidate; number and order of the snippets are those of
\* the candidates, and the one ranking request is issued.
C12_PreviewDegrades ==
    Ranked =>
        LET k == IF Len(results) < 5 THEN Len(results) ELSE 5
            first == Count(calls, IsSearch)
            snips == calls[RankingIndex].arg.snippets
        IN /\ Count(calls, IsRanking) = 1
           /\ Len(snips) = k
           /\ \A i \in 1..k :
                /\ snips[i].title = results[i]
                /\ IF replies[first + i] = "fail"
                   THEN snips[i].text =
                          [lit |-> <<"Unable to load summary.">>, page |-> <<>>,
                           part |-> "lit", len |-> 0, marker |-> FALSE]
                   ELSE snips[i].text =
                          [lit |-> <<>>, page |-> results[i], part |-> "summary",
                           len |-> IF SummaryLen(results[i]) > 300
                                   THEN 300 ELSE SummaryLen(results[i]),
                           marker |-> FALSE]

\* One preview failed while another candidate, whose summary is longer than
\* 300 characters, was fetched.
C12_Witness ==
    /\ Ranked
    /\ LET first == Count(calls, IsSearch)
       IN \E i, j \in 1..Count(calls, IsPreview) :
            /\ replies[first + i] = "fail"
            /\ replies[first + j] = "ok"
            /\ SummaryLen(results[j]) > 300

RECURSIVE Concat(_)
Concat(toks) == IF toks = <<>> THEN <<>> ELSE Head(toks) \o Concat(Tail(toks))

\* C14: on successful completion the pipeline trace records the answer equal
\* to the concatenation of the tokens emitted and the title returned by
\* rank_pages; in ERROR it records the error message, never a completed output.
C14_RecordedOutput ==
    /\ stage = "DONE" =>
          outer.output = [kind |-> "completed", msg |-> <<>>,
                          page_used |-> best, final_answer |-> Concat(out)]
    /\ stage = "ERROR" =>
          /\ outer.output.kind = "error"
          /\ out # <<>>
          /\ outer.output.msg =
                (IF Head(out[Len(out)]) = "\n"
                 THEN Tail(out[Len(out)]) ELSE out[Len(out)])

\* A run completed after two different tokens.
C14_Witness ==
    /\ stage = "DONE"
    /\ Len(out) = 2
    /\ out[1] # out[2]
    /\ outer.output.kind = "completed"

\* C16: an article longer than 6000 characters is returned as its first 6000
\* characters followed by the marker, 6003 characters in all; an article of at
\* most 6000 characters is returned unmodified.
C16_Truncation ==
    \A i \in 1..Len(calls) :
        (IsFinalFetch(calls[i]) /\ ~replies[i].raised) =>
            /\ ~content.isNone
            /\ IF replies[i].len > 6000
               THEN /\ content.t = [lit |-> <<>>, page |-> calls[i].arg,
                                    part |-> "content", len |-> 6000,
                                    marker |-> TRUE]
                    /\ TextLen(content.t) = 6003
               ELSE /\ content.t = [lit |-> <<>>, page |-> calls[i].arg,
                                    part |-> "content", len |-> replies[i].len,
                                    marker |-> FALSE]
                    /\ TextLen(content.t) = replies[i].len

\* An article of 6001 characters was fetched and truncated.
C16_Witness ==
    /\ pc = "open"
    /\ \E i \in 1..Len(calls) : IsFinalFetch(calls[i]) /\ replies[i].len = 6001
    /\ content.t.marker

\* The generator has ended: it returned, raised, or was closed.
Ended == pc \in {"done", "raised", "closed"}

\* C13: when an invocation has ended, every trace and span it created has
\* received an output.
C13_EverySpanOutput ==
    Ended =>
        /\ \A n \in SpanNames : spans[n] # "open"
        /\ outer.created => outer.output.kind # "unset"

\* The maximal runs of ASCII letters of q, as pairs of positions.
IsRun(q, i, j) ==
    /\ \A k \in i..j : IsLetter(q[k])
    /\ i = 1 \/ ~IsLetter(q[i - 1])
    /\ j = Len(q) \/ ~IsLetter(q[j + 1])

RunText(q, r) == [k \in 1..(r[2] - r[1] + 1) |-> LowerChar(q[r[1] + k - 1])]

\* The runs whose lower-cased text is no stop word.
Kept(q) ==
    {r \in (1..Len(q)) \X (1..Len(q)) :
        r[1] <= r[2] /\ IsRun(q, r[1], r[2]) /\ RunText(q, r) \notin remove_words}

LastKept(q) == CHOOSE r \in Kept(q) : \A r2 \in Kept(q) : r2[1] <= r[1]

\* C18: when extract_topic has returned, the corrector was asked about the
\* lower-cased last maximal run of letters that is no stop word and the topic
\* is its answer; when there is no such run, the corrector was not asked and
\* the topic is the question as it was given.
C18_TopicRule ==
    spans["extract_topic"] = "ok" =>
        IF Kept(question) = {}
        THEN ~spell.called /\ topic = PyStr(question)
        ELSE /\ spell.called
             /\ spell.arg = RunText(question, LastKept(question))
             /\ topic = spell.res

\* The question "A Of" has been reduced: the corrector was asked about "a",
\* the lower-cased word before the stop word.
C18_Witness ==
    /\ spans["extract_topic"] = "ok"
    /\ question = <<"A", " ", "O", "f">>
    /\ spell.arg = <<"a">>
    /\ topic = spell.res

\* C19: extract_topic returns a string; when the corrector reports no result
\* for the token, the token itself is returned.
C19_AlwaysString ==
    spans["extract_topic"] = "ok" =>
        /\ ~topic.isNone
        /\ (spell.called /\ spell.res.isNone) => topic = PyStr(spell.arg)

\* What extract_topic returned.
ReturnedTopic == IF spell.called THEN spell.res ELSE PyStr(question)

\* C20, as stated: the one token of an empty search is
\* "No results found for '<topic>'.".
C20_Original ==
    (Searched /\ results = <<>>) =>
        out = << <<"No results found for '">> \o Format(ReturnedTopic) \o <<"'.">> >>

\* C20, amended: the one token of an empty search is
\* "No Wikipedia pages found for '<topic>'.", where <topic> is the value
\* extract_topic returned for the question.
C20_NoPagesText ==
    (Searched /\ results = <<>>) =>
        /\ Len(out) = 1
        /\ out[1] = <<"No Wikipedia pages found for '">>
                    \o Format(ReturnedTopic) \o <<"'.">>

\* The search of a question whose topic the corrector replaced by another word
\* found nothing.
C20_Witness ==
    /\ Searched
    /\ results = <<>>
    /\ spell.called
    /\ spell.res = PyStr(<<"w", "a", "t", "e", "r">>)
    /\ Len(out) = 1

\* C17: the text answer returns is the concatenation, in order, of the tokens
\* answer_stream produced for the same question and the same external
\* responses, on the success path and on every error path.
C17_ModesAgree ==
    ~answer.isNone =>
        /\ answer.s = Concat(out)
        /\ pc = "m_done"

\* answer returned after a chunk and the error token of a broken stream.
C17_Witness ==
    /\ ~answer.isNone
    /\ out = << <<"a">>, <<"\nError: ", "<exc>">> >>
    /\ answer.s = <<"a", "\nError: ", "<exc>">>

\* The tokens of the stream of frame f that were forwarded.
Forwarded(f) ==
    LET P == Produced(f.calls, f.replies)
    IN SubSeq(P, 1, Len(P) - (IF f.held.has THEN 1 ELSE 0))

\* What one invocation has read, emitted and recorded is made of its own
\* question and of the answers to its own requests.
Isolated(f) ==
    /\ f.question = PairQuestions[f.inv]
    /\ \A i \in 1..Len(f.calls) :
         LET c == f.calls[i]
         IN /\ IsSearch(c) => c.arg \in {PyStr(f.question), f.topic}
            /\ IsPreview(c) => \E j \in 1..Len(f.results) : c.arg = f.results[j]
            /\ IsRanking(c) => /\ c.arg.question = f.question
                               /\ ~f.replies[i].raised
                                    => f.best \in {<<>>, Strip(f.replies[i].val)}
            /\ IsFinalFetch(c) => c.arg = f.best
            /\ IsGeneration(c) => c.arg.content = f.content.t
                                  /\ f.content.t.page = f.best
    /\ f.spell.called => f.topic = f.spell.res
    /\ f.final_answer = Concat(Forwarded(f))
    /\ IsPrefix(Forwarded(f), f.out)
    /\ Len(f.out) <= Len(Forwarded(f)) + 1
    /\ f.stage = "DONE" =>
         /\ f.out = Produced(f.calls, f.replies)
         /\ f.outer.output = [kind |-> "completed", msg |-> <<>>,
                              page_used |-> f.best,
                              final_answer |-> Concat(f.out)]

\* C15: under every interleaving of two invocations on the shared object, the
\* tokens each one emits and the answer recorded for it are those of its own
\* question and of the answers to its own requests; the locals of one are
\* neither read nor written by the other.
C15_Isolation ==
    peer.alive => Isolated(Cur) /\ Isolated(peer)

\* Both invocations completed, the first with two tokens and the second with
\* one.
C15_Witness ==
    /\ peer.alive
    /\ inv = 1
    /\ stage = "DONE"
    /\ peer.stage = "DONE"
    /\ outer.output.final_answer = <<"a", "a">>
    /\ peer.outer.output.final_answer = <<"b">>

\* t is s without its leading and trailing white space.
IsTrimOf(t, s) ==
    /\ t = <<>> \/ (t[1] \notin {" ", "\n", "\t"} /\ t[Len(t)] \notin {" ", "\n", "\t"})
    /\ \E i \in 1..(Len(s) + 1) :
         /\ i + Len(t) - 1 <= Len(s)
         /\ \A k \in 1..Len(t) : s[i + k - 1] = t[k]
         /\ \A k \in 1..Len(s) :
              (k < i \/ k >= i + Len(t)) => s[k] \in {" ", "\n", "\t"}

\* C21: every page fetch issued before the ranking request asks for the
\* literal title of one of the first candidates without auto-suggestion; a
\* page fetch after the ranking request is the only one, follows it directly,
\* uses auto-suggestion and asks for exactly the trimmed answer of the ranking
\* request, whether or not that text is a candidate.
C21_FetchStrictness ==
    LET first == Count(calls, IsSearch)
        isPage(i) == calls[i].op = "page"
        afterRanking(i) == \E j \in 1..(i - 1) : calls[j].op = "chat"
    IN /\ \A i \in 1..Len(calls) :
            isPage(i) =>
              IF afterRanking(i)
              THEN /\ calls[i].fuzzy
                   /\ calls[i - 1].op = "chat"
                   /\ ~replies[i - 1].raised
                   /\ IsTrimOf(calls[i].arg, replies[i - 1].val)
                   /\ calls[i].arg = best
              ELSE /\ ~calls[i].fuzzy
                   /\ i - first \in 1..5
                   /\ i - first <= Len(results)
                   /\ calls[i].arg = results[i - first]
       /\ Cardinality({i \in 1..Len(calls) : isPage(i) /\ afterRanking(i)}) <= 1

\* The ranking request answered a text that is no candidate, and the final
\* fetch asked for it, with auto-suggestion, after two exact previews.
C21_Witness ==
    /\ \E i \in 1..Len(calls) :
         /\ calls[i].op = "page"
         /\ calls[i].fuzzy
         /\ calls[i].arg = <<"Some other page">>
         /\ \A j \in 1..Len(results) : results[j] # calls[i].arg
    /\ Cardinality({i \in 1..Len(calls) : calls[i].op = "page" /\ ~calls[i].fuzzy}) = 2

\* The frames of the invocations there are, and the frame of invocation i.
Frames == IF peer.alive THEN {Cur, peer} ELSE {Cur}
FrameIds == IF peer.alive THEN {1, 2} ELSE {1}
FrameById(i) == IF inv = i THEN Cur ELSE peer

\* The consumer has stopped and closed the invocation of frame f.
Abandoned(f) == f.pc = "closed"

\* No chunk was pulled that the consumer did not ask for and receive a token
\* for, no completed output is recorded, and every other invocation is made
\* of its own question and answers only.
C22_State ==
    \A f \in Frames :
        Abandoned(f) =>
            /\ Count(f.calls, IsPull) <= Len(f.out)
            /\ ~f.held.has
            /\ f.stage # "DONE"
            /\ f.outer.output.kind # "completed"
            /\ f.stage = "STREAMING" => f.outer.output.kind = "unset"
            /\ \A g \in Frames \ {f} : Isolated(g)

\* Nothing of an abandoned invocation changes any more: no request, no token,
\* no recorded output.
C22_Step ==
    \A i \in FrameIds : Abandoned(FrameById(i)) => FrameById(i)' = FrameById(i)

\* C22: once the consumer has stopped after k tokens, the invocation pulls no
\* further chunk and issues no further request, no completed output is
\* recorded for it, and another invocation on the same object emits and
\* records what its own question and answers give.
C22_EarlyTermination == []C22_State /\ [][C22_Step]_vars

\* The first invocation was abandoned after one token of its stream; the
\* second one has completed with two tokens of its own.
C22_Witness ==
    /\ peer.alive
    /\ peer.inv = 1
    /\ peer.pc = "closed"
    /\ peer.stage = "STREAMING"
    /\ peer.out = << <<"a">> >>
    /\ stage = "DONE"
    /\ outer.output.final_answer = <<"b", "b">>

====
